-------------------------- MODULE Spec2Model --------------------------
(* Model of homework_1/deco.py: the decorators disable, countcalls, memo,  *)
(* n_ary and trace, the three decorated functions foo, bar and fib, and    *)
(* the calls a client makes on them.  A call is executed by an explicit    *)
(* call stack: every wrapper is a frame, and each action is one step of    *)
(* one wrapper's body.                                                     *)
EXTENDS Integers, Sequences, FiniteSets, TLC

(* ------------------------------ bounds ------------------------------ *)

\* external calls a client makes in one run
MaxCalls == 3
\* longest argument list passed to foo / bar
MaxLen == 4
\* largest argument passed to fib
MaxN == 3

\* first argument of every foo / bar call in main()
First == 4

(* -------------------------- Python values --------------------------- *)

\* Arguments and results are ints.  The one other value a client passes is
\* a one-element list [n], written ListTag + n: no int of the model is
\* that large.  A list is what `args in cache` cannot hash.
ListTag == 1000

ListOf(n) == ListTag + n

is_list(v) == v >= ListTag

\* str(v)
str(v) == IF is_list(v) THEN "[" \o ToString(v - ListTag) \o "]" ELSE ToString(v)

\* a tuple that is hashed as if every value in it were hashable
hashable_anything(args) == TRUE

\* hash(args) succeeds: every element of the tuple is hashable
hashable(args) == \A i \in DOMAIN args : ~is_list(args[i])

(* ------------------------- Python objects --------------------------- *)

\* docstring of a function defined without one (__doc__ is None)
None == "None"

\* an empty __dict__
EmptyDict == [k \in {} |-> 0]

\* dict.update(src): keys of src overwrite, other keys are kept
DictUpdate(d, src) ==
    [k \in (DOMAIN d) \cup (DOMAIN src) |-> IF k \in DOMAIN src THEN src[k] ELSE d[k]]

\* A function object is the chain of wrappers down to the def'd function,
\* outermost first.  Each link carries what Python keeps on the function:
\* __name__, __doc__, __dict__ (kind and arg say whose closure it is).
Layer(kind, arg, name, doc, dict) ==
    [kind |-> kind, arg |-> arg, name |-> name, doc |-> doc, dict |-> dict]

FunctionObj(layers) == [type |-> "function", layers |-> layers]

\* a str object (not callable)
StrObj(s) == [type |-> "str", value |-> s]

\* the object `lambda f: f`
LambdaId == [type |-> "lambda"]

\* a nested `def wrapper` before any attribute is set on it
NewWrapper(kind, arg) == Layer(kind, arg, "wrapper", None, EmptyDict)

\* def name(...): with the given docstring
Def(name, doc) == FunctionObj(<<Layer("def", "", name, doc, EmptyDict)>>)

callable(x) == x.type \in {"function", "lambda"}

\* functools.update_wrapper(wrapper, wrapped): copies __name__ and __doc__,
\* updates wrapper.__dict__ with wrapped.__dict__
update_wrapper(wrapper, wrapped) ==
    [wrapper EXCEPT !.name = wrapped.name,
                    !.doc = wrapped.doc,
                    !.dict = DictUpdate(wrapper.dict, wrapped.dict)]

\* @wraps(f) applied to a fresh wrapper
wraps(f, wrapper) == update_wrapper(wrapper, f.layers[1])

\* a disable without its callable() test
disable_always_lambda(f) == LambdaId

disable(f) == IF callable(f) THEN f ELSE LambdaId

countcalls(func) ==
    FunctionObj(<<[NewWrapper("countcalls", "") EXCEPT !.dict = [calls |-> 0]]>>
                \o func.layers)

memo(f) == FunctionObj(<<wraps(f, NewWrapper("memo", ""))>> \o f.layers)

n_ary(f) == FunctionObj(<<wraps(f, NewWrapper("n_ary", ""))>> \o f.layers)

\* trace(decor_arg)(f)
trace(decor_arg, f) ==
    FunctionObj(<<[wraps(f, NewWrapper("trace", decor_arg))
                      EXCEPT !.dict = DictUpdate(@, [level |-> 0])]>> \o f.layers)

\* calling the decoration-time object g with the single argument x; only
\* `lambda f: f` is ever called this way, any other object is an error
Apply(g, x) == IF g.type = "lambda" THEN x ELSE [type |-> "error"]

\* the wrapper chain of an object, none when it is not a function
Layers(x) == IF x.type = "function" THEN x.layers ELSE <<>>

(* --------------------- the decorated functions ---------------------- *)

\* the function foo's memo wraps: countcalls(n_ary(foo))
FooInner == countcalls(n_ary(Def("foo", None)))

\* foo, bar, fib as the module defines them; foo_d is foo's stack built
\* after `memo = disable`, fib_d is fib's stack built after `trace = disable`
\* (so that @trace("____") is disable("____"), then called with the function);
\* foo_t is a second wrap site around the very function object foo's memo
\* wraps: trace("____")(memo(foo.__wrapped__))
Module ==
    [foo   |-> memo(FooInner),
     foo_t |-> trace("____", memo(FooInner)),
     bar   |-> countcalls(memo(n_ary(Def("bar", None)))),
     fib   |-> countcalls(trace("____", memo(Def("fib", "Some doc")))),
     foo_d |-> disable(countcalls(n_ary(Def("foo", None)))),
     fib_d |-> countcalls(Apply(disable(StrObj("____")), memo(Def("fib", "Some doc"))))]

Sites == DOMAIN Module

\* where the function object at link idx of a site lives: foo_t's links
\* below its memo are foo's own links below foo's memo, the same objects
Home(site, idx) ==
    IF site = "foo_t" /\ idx > 2 THEN <<"foo", idx - 1>> ELSE <<site, idx>>

\* the site whose def a site ends in
Group(site) == Home(site, Len(Layers(Module[site])))[1]

(* ------------------------------ inputs ------------------------------ *)

\* 4, 3, 2, 1, ...: the arguments main() passes to foo and bar
Countdown == [i \in 1..MaxLen |-> First + 1 - i]

\* the argument tuples a client passes to a site: for foo and bar the
\* prefixes of the countdown (the empty call included) and ([4], 3), for
\* fib the values 0..MaxN, the empty call, one two-argument call and
\* ([MaxN],), for foo_t the shorter non-empty prefixes of the countdown
ArgTuples(site) ==
    IF Module[site].type = "function"
       /\ Module[site].layers[Len(Module[site].layers)].name = "fib"
    THEN {<<n>> : n \in 0..MaxN} \cup {<<>>, <<First, First - 1>>, <<ListOf(MaxN)>>}
    ELSE IF site = "foo_t"
    THEN {SubSeq(Countdown, 1, k) : k \in 1..(MaxLen - 1)}
    ELSE {SubSeq(Countdown, 1, k) : k \in 0..MaxLen} \cup {<<ListOf(First), First - 1>>}

(* ------------------------------ state ------------------------------- *)

VARIABLES
    obj,      \* site -> its chain of function objects (name, doc, __dict__)
    cache,    \* site -> per link, the `cache` dict of a memo closure
    stack,    \* the Python call stack, innermost frame last
    ret,      \* what the frame that just ended handed to its caller
    out,      \* the lines printed by trace
    hist,     \* the client's calls so far, with the state each one found
    results,  \* the outcome of each finished client call
    log       \* every call made, client's or nested, in order

vars == <<obj, cache, stack, ret, out, hist, results, log>>

NoRet == [kind |-> "none", val |-> 0]
Value(v) == [kind |-> "value", val |-> v]
Raised == [kind |-> "raise", val |-> 0]

Init ==
    /\ obj = [s \in Sites |-> Layers(Module[s])]
    /\ cache = [s \in Sites |-> [i \in 1..Len(Layers(Module[s])) |-> <<>>]]
    /\ stack = <<>>
    /\ ret = NoRet
    /\ out = <<>>
    /\ hist = <<>>
    /\ results = <<>>
    /\ log = <<>>

(* -------------------------- call machinery -------------------------- *)

Top == stack[Len(stack)]

\* the function object whose body a frame executes, and the one it wraps
ObjAt(site, idx) == obj[Home(site, idx)[1]][Home(site, idx)[2]]
Self(fr) == ObjAt(fr.site, fr.idx)
Inner(fr) == ObjAt(fr.site, fr.idx + 1)

\* the chain of a site as its caller sees it, and the caches along it
Chain(site) == [i \in DOMAIN obj[site] |-> ObjAt(site, i)]
CacheChain(site) ==
    [i \in DOMAIN obj[site] |-> cache[Home(site, i)[1]][Home(site, i)[2]]]

\* the function object the top frame runs
Here == Home(Top.site, Top.idx)

\* a new frame for calling link idx of a site with args
Frame(site, idx, args) ==
    [site |-> site, idx |-> idx, args |-> args, pc |-> "start",
     acc |-> 0, prefix |-> "", arg |-> "", id |-> Len(log) + 1]

\* the record of a call just made: who called (0 is the client), and how it
\* ended, which is filled in when its frame ends
Entry(site, idx, args, from) ==
    [site |-> site, idx |-> idx, args |-> args, from |-> from,
     end |-> "running", val |-> 0]

\* the top frame is in the body of a function of this kind, at this point
At(kind, pc) ==
    /\ stack # <<>>
    /\ Self(Top).kind = kind
    /\ Top.pc = pc
    /\ ret.kind = (IF pc = "start" THEN "none" ELSE "value")

\* the top frame, changed to `me`, calls link idx of its site with args
Call(me, idx, args) ==
    /\ stack' = Append([stack EXCEPT ![Len(stack)] = me], Frame(me.site, idx, args))
    /\ log' = Append(log, Entry(me.site, idx, args, me.idx))
    /\ ret' = NoRet

\* the top frame ends, handing r to its caller
Leave(r) ==
    /\ stack' = SubSeq(stack, 1, Len(stack) - 1)
    /\ ret' = r
    /\ log' = [log EXCEPT ![Top.id] = [@ EXCEPT !.end = r.kind, !.val = r.val]]

(* ---------------------------- countcalls ---------------------------- *)

\* `wrapper.calls = 1` in place of `+= 1`
calls_assigned(n) == 1

\* the new value of wrapper.calls after `wrapper.calls += 1`
calls_incremented(n) == n + 1

\* wrapper.calls += 1; func(*args, **kwargs)
CountcallsCall ==
    /\ At("countcalls", "start")
    /\ obj' = [obj EXCEPT ![Here[1]][Here[2]].dict.calls = calls_incremented(@)]
    /\ Call([Top EXCEPT !.pc = "called"], Top.idx + 1, Top.args)
    /\ UNCHANGED <<cache, out, hist, results>>

\* return res
CountcallsReturn ==
    /\ At("countcalls", "called")
    /\ Leave(ret)
    /\ UNCHANGED <<obj, cache, out, hist, results>>

(* ------------------------------- memo ------------------------------- *)

\* a lookup that never finds its key
in_cache_never(args, c) == FALSE

\* `args in cache`
in_cache(args, c) == args \in DOMAIN c

\* one cache for every memo of the module
cache_home_module_level(site, idx) == <<"foo", 1>>

\* where the `cache` of the memo at link idx of a site lives: `cache = {}`
\* is a local of memo, so every memo wrapper has its own
cache_home(site, idx) == Home(site, idx)

\* the cache of the memo wrapper the top frame runs
Cache == cache[cache_home(Top.site, Top.idx)[1]][cache_home(Top.site, Top.idx)[2]]

\* `args not in cache` on a tuple that holds a list: TypeError
MemoUnhashable ==
    /\ At("memo", "start")
    /\ ~hashable(Top.args)
    /\ Leave(Raised)
    /\ UNCHANGED <<obj, cache, out, hist, results>>

\* args in cache: update_wrapper(wrapper, f); return cache[args]
MemoHit ==
    /\ At("memo", "start")
    /\ hashable(Top.args)
    /\ in_cache(Top.args, Cache)
    /\ obj' = [obj EXCEPT ![Here[1]][Here[2]] = update_wrapper(@, Inner(Top))]
    /\ Leave(Value(Cache[Top.args]))
    /\ UNCHANGED <<cache, out, hist, results>>

\* args not in cache: f(*args)
MemoMiss ==
    /\ At("memo", "start")
    /\ hashable(Top.args)
    /\ ~in_cache(Top.args, Cache)
    /\ Call([Top EXCEPT !.pc = "called"], Top.idx + 1, Top.args)
    /\ UNCHANGED <<obj, cache, out, hist, results>>

\* a dict emptied before the item is set
SetItem_cleared(d, key, v) == [k \in {key} |-> v]

\* the dict d with d[key] = v
SetItem(d, key, v) ==
    [k \in (DOMAIN d) \cup {key} |-> IF k = key THEN v ELSE d[k]]

\* cache[args] = <result of f>; update_wrapper(wrapper, f); return cache[args]
MemoStore ==
    /\ At("memo", "called")
    /\ cache' = [cache EXCEPT ![cache_home(Top.site, Top.idx)[1]][cache_home(Top.site, Top.idx)[2]]
                                  = SetItem(@, Top.args, ret.val)]
    /\ obj' = [obj EXCEPT ![Here[1]][Here[2]] = update_wrapper(@, Inner(Top))]
    /\ Leave(Value(SetItem(Cache, Top.args, ret.val)[Top.args]))
    /\ UNCHANGED <<out, hist, results>>

(* ------------------------------ n_ary ------------------------------- *)

\* a recursion through the outermost wrapper of the site
nary_wrapper_outermost(fr) == 1

\* the function the name `wrapper` in n_ary's wrapper is bound to: the
\* wrapper itself, whatever decorates it later
nary_wrapper(fr) == fr.idx

\* f(wrapper(*args), x)
nary_f_args_swapped(x, rest) == <<rest, x>>

\* the arguments of f in f(x, wrapper(*args))
nary_f_args(x, rest) == <<x, rest>>

\* a wrapper whose x defaults to 0
nary_missing_x_defaulted == Value(0)

\* binding no argument to the parameter x of wrapper(x, *args): TypeError
nary_missing_x == Raised

\* wrapper(x, *args) called with no argument at all
NaryNoArgs ==
    /\ At("n_ary", "start")
    /\ Len(Top.args) = 0
    /\ Leave(nary_missing_x)
    /\ UNCHANGED <<obj, cache, out, hist, results>>

\* return x if not args
NaryOne ==
    /\ At("n_ary", "start")
    /\ Len(Top.args) = 1
    /\ Leave(Value(Top.args[1]))
    /\ UNCHANGED <<obj, cache, out, hist, results>>

\* else f(x, wrapper(*args)): the argument wrapper(*args) is evaluated first
NaryRecurse ==
    /\ At("n_ary", "start")
    /\ Len(Top.args) > 1
    /\ Call([Top EXCEPT !.pc = "recursed"], nary_wrapper(Top), Tail(Top.args))
    /\ UNCHANGED <<obj, cache, out, hist, results>>

\* f(x, <value of wrapper(*args)>)
NaryApply ==
    /\ At("n_ary", "recursed")
    /\ Call([Top EXCEPT !.pc = "called"], Top.idx + 1, nary_f_args(Top.args[1], ret.val))
    /\ UNCHANGED <<obj, cache, out, hist, results>>

\* return <value of f(...)>
NaryReturn ==
    /\ At("n_ary", "called")
    /\ Leave(ret)
    /\ UNCHANGED <<obj, cache, out, hist, results>>

(* ------------------------------ trace ------------------------------- *)

RECURSIVE Repeat(_, _)
\* s * n on a str
Repeat(s, n) == IF n <= 0 THEN "" ELSE s \o Repeat(s, n - 1)

RECURSIVE Join(_)
\* ", ".join(str(a) for a in args)
Join(args) ==
    IF args = <<>> THEN ""
    ELSE IF Len(args) = 1 THEN str(args[1])
    ELSE str(args[1]) \o ", " \o Join(Tail(args))

\* "{} --> {}({})".format(prefix, name, arg)
EnterLine(prefix, name, arg) == prefix \o " --> " \o name \o "(" \o arg \o ")"

\* "{} <-- {}({}) == {}".format(prefix, name, arg, result)
ExitLine(prefix, name, arg, result) ==
    prefix \o " <-- " \o name \o "(" \o arg \o ") == " \o str(result)

\* a prefix computed again from wrapper.level when the exit line is printed
exit_prefix_recomputed(fr) == Repeat(Self(fr).arg, Self(fr).dict.level)

\* the prefix the exit line is printed with: the local computed on entry
exit_prefix(fr) == fr.prefix

\* prefix = decor_arg * wrapper.level; arg = ...; print(-->);
\* wrapper.level += 1; f(*args)
TraceEnter ==
    /\ At("trace", "start")
    /\ LET prefix == Repeat(Self(Top).arg, Self(Top).dict.level)
           arg == Join(Top.args)
       IN /\ out' = Append(out, [id |-> Top.id, enter |-> TRUE, prefix |-> prefix,
                                 text |-> EnterLine(prefix, Inner(Top).name, arg)])
          /\ Call([Top EXCEPT !.pc = "called", !.prefix = prefix, !.arg = arg],
                  Top.idx + 1, Top.args)
    /\ obj' = [obj EXCEPT ![Here[1]][Here[2]].dict.level = @ + 1]
    /\ UNCHANGED <<cache, hist, results>>

\* print(<--); wrapper.level -= 1; return result
TraceExit ==
    /\ At("trace", "called")
    /\ out' = Append(out, [id |-> Top.id, enter |-> FALSE, prefix |-> exit_prefix(Top),
                           text |-> ExitLine(exit_prefix(Top), Inner(Top).name,
                                             Top.arg, ret.val)])
    /\ obj' = [obj EXCEPT ![Here[1]][Here[2]].dict.level = @ - 1]
    /\ Leave(ret)
    /\ UNCHANGED <<cache, hist, results>>

(* ----------------------- the def'd functions ------------------------ *)

\* number of positional parameters of each def
Arity(name) == IF name = "fib" THEN 1 ELSE 2

\* a body that calls the undecorated def
global_fib_undecorated(fr) == fr.idx

\* the function the global name `fib` is bound to when the body runs: the
\* outermost wrapper of the site
global_fib(fr) == 1

\* a def called with the wrong number of arguments: TypeError
DefBadArity ==
    /\ At("def", "start")
    /\ Len(Top.args) # Arity(Self(Top).name)
    /\ Leave(Raised)
    /\ UNCHANGED <<obj, cache, out, hist, results>>

\* def foo(a, b): return a + b
foo(a, b) == a + b

\* def bar(a, b): return a * b
bar(a, b) == a * b

\* foo's body, called with two arguments
FooBody ==
    /\ At("def", "start")
    /\ Self(Top).name = "foo"
    /\ Len(Top.args) = 2
    /\ Leave(Value(foo(Top.args[1], Top.args[2])))
    /\ UNCHANGED <<obj, cache, out, hist, results>>

\* bar's body, called with two arguments
BarBody ==
    /\ At("def", "start")
    /\ Self(Top).name = "bar"
    /\ Len(Top.args) = 2
    /\ Leave(Value(bar(Top.args[1], Top.args[2])))
    /\ UNCHANGED <<obj, cache, out, hist, results>>

\* def fib(n): return 1 if n <= 1
FibBase ==
    /\ At("def", "start")
    /\ Self(Top).name = "fib"
    /\ Len(Top.args) = 1
    /\ Top.args[1] <= 1
    /\ Leave(Value(1))
    /\ UNCHANGED <<obj, cache, out, hist, results>>

\* else fib(n - 1) ...: the global name fib is the decorated function
FibFirst ==
    /\ At("def", "start")
    /\ Self(Top).name = "fib"
    /\ Len(Top.args) = 1
    /\ Top.args[1] > 1
    /\ Call([Top EXCEPT !.pc = "first"], global_fib(Top), <<Top.args[1] - 1>>)
    /\ UNCHANGED <<obj, cache, out, hist, results>>

\* ... + fib(n - 2)
FibSecond ==
    /\ At("def", "first")
    /\ Call([Top EXCEPT !.pc = "second", !.acc = ret.val], global_fib(Top),
            <<Top.args[1] - 2>>)
    /\ UNCHANGED <<obj, cache, out, hist, results>>

\* return <fib(n - 1)> + <fib(n - 2)>
FibSum ==
    /\ At("def", "second")
    /\ Leave(Value(Top.acc + ret.val))
    /\ UNCHANGED <<obj, cache, out, hist, results>>

(* ---------------------------- exceptions ---------------------------- *)

\* an exception leaves the frame it reaches: no wrapper has an except or
\* a finally clause, so nothing else happens
\* a memo that keeps 0 for a tuple on which f raised
memo_on_raise_stored(c, args) == SetItem(c, args, 0)

\* the cache after f(*args) raised inside memo's wrapper: the assignment
\* cache[args] = ... never happens
memo_on_raise(c, args) == c

Propagate ==
    /\ stack # <<>>
    /\ ret.kind = "raise"
    /\ cache' = IF Self(Top).kind = "memo"
                THEN [cache EXCEPT ![cache_home(Top.site, Top.idx)[1]][cache_home(Top.site, Top.idx)[2]]
                                       = memo_on_raise(@, Top.args)]
                ELSE cache
    /\ Leave(ret)
    /\ UNCHANGED <<obj, out, hist, results>>

(* ---------------------------- the client ---------------------------- *)

Idle == stack = <<>> /\ ret.kind = "none"

\* the client calls the decorated function of a site; a run uses the sites
\* that end in one def
ExternalCall(site, args) ==
    /\ Idle
    /\ Len(hist) < MaxCalls
    /\ obj[site] # <<>>
    /\ IF hist = <<>> THEN TRUE ELSE Group(hist[1].site) = Group(site)
    /\ hist' = Append(hist, [site |-> site, args |-> args, obj |-> Chain(site),
                             cache |-> CacheChain(site), out |-> Len(out),
                             log |-> Len(log)])
    /\ stack' = <<Frame(site, 1, args)>>
    /\ log' = Append(log, Entry(site, 1, args, 0))
    /\ UNCHANGED <<obj, cache, ret, out, results>>

\* the call comes back to the client, with a value or an exception
ExternalReturn ==
    /\ stack = <<>>
    /\ ret.kind # "none"
    /\ results' = Append(results, [kind |-> ret.kind, val |-> ret.val,
                                   obj |-> Chain(hist[Len(hist)].site),
                                   cache |-> CacheChain(hist[Len(hist)].site),
                                   out |-> Len(out), log |-> Len(log)])
    /\ ret' = NoRet
    /\ UNCHANGED <<obj, cache, stack, out, hist, log>>

Next ==
    \/ \E site \in Sites : \E args \in ArgTuples(site) : ExternalCall(site, args)
    \/ ExternalReturn
    \/ CountcallsCall
    \/ CountcallsReturn
    \/ MemoUnhashable
    \/ MemoHit
    \/ MemoMiss
    \/ MemoStore
    \/ NaryNoArgs
    \/ NaryOne
    \/ NaryRecurse
    \/ NaryApply
    \/ NaryReturn
    \/ TraceEnter
    \/ TraceExit
    \/ DefBadArity
    \/ FooBody
    \/ BarBody
    \/ FibBase
    \/ FibFirst
    \/ FibSecond
    \/ FibSum
    \/ Propagate

Spec == Init /\ [][Next]_vars


(* ------------------- n_ary alone, on any arguments ------------------ *)

\* largest value in an argument list given to n_ary directly
MaxFoldVal == 2

\* all argument lists of length 1..MaxLen over 0..MaxFoldVal
FoldTuples == UNION {[1..k -> 0..MaxFoldVal] : k \in 1..MaxLen}

\* the sites whose chain has an n_ary wrapper, and where it is
NarySites == {s \in Sites : \E i \in DOMAIN Layers(Module[s]) : Layers(Module[s])[i].kind = "n_ary"}
NaryIdx(s) == CHOOSE i \in DOMAIN Layers(Module[s]) : Layers(Module[s])[i].kind = "n_ary"

\* n_ary's wrapper of a site has just been called with some argument list
InitFold ==
    /\ obj = [s \in Sites |-> Layers(Module[s])]
    /\ cache = [s \in Sites |-> [i \in 1..Len(Layers(Module[s])) |-> <<>>]]
    /\ \E s \in NarySites : \E args \in FoldTuples :
          /\ stack = <<[site |-> s, idx |-> NaryIdx(s), args |-> args, pc |-> "start",
                        acc |-> 0, prefix |-> "", arg |-> "", id |-> 1]>>
          /\ log = <<Entry(s, NaryIdx(s), args, 0)>>
    /\ ret = NoRet
    /\ out = <<>>
    /\ hist = <<>>
    /\ results = <<>>

NextFold ==
    \/ NaryOne
    \/ NaryRecurse
    \/ NaryApply
    \/ NaryReturn
    \/ FooBody
    \/ BarBody

SpecFold == InitFold /\ [][NextFold]_vars

(* --------------------- what the claims speak of --------------------- *)

\* every call the client made has come back
Done == Idle /\ Len(results) = Len(hist)

\* the client has called this site only, with these argument tuples in order
Called(site, tuples) ==
    /\ Len(hist) = Len(tuples)
    /\ \A k \in DOMAIN hist : hist[k].site = site /\ hist[k].args = tuples[k]

\* every call came back with a value, and these are the values in order
Returned(values) ==
    /\ Len(results) = Len(values)
    /\ \A k \in DOMAIN results : results[k].kind = "value" /\ results[k].val = values[k]

\* the counter of the countcalls wrapper at link i of a site
Counter(site, i) == ObjAt(site, i).dict.calls

\* every call of the client so far was made on this site
OnlySite(site) == hist # <<>> /\ \A k \in DOMAIN hist : hist[k].site = site

(* C1: scenario A.  On foo = memo(countcalls(n_ary(foo))) with fresh state, *)
(* the calls foo(4,3), foo(4,3,2), foo(4,3) return 7, 9, 7 and leave the    *)
(* counter of the countcalls wrapper (and the foo.calls main() prints) at 2. *)
ScenarioA ==
    (Done /\ Called("foo", <<<<4, 3>>, <<4, 3, 2>>, <<4, 3>>>>))
        => /\ Returned(<<7, 9, 7>>)
           /\ Counter("foo", 2) = 2
           /\ obj["foo"][1].dict.calls = 2

ScenarioA_reached ==
    /\ Done
    /\ Called("foo", <<<<4, 3>>, <<4, 3, 2>>, <<4, 3>>>>)
    /\ Counter("foo", 2) = 2
    /\ cache["foo"][1][<<4, 3>>] = 7

(* C2: scenario B.  On bar = countcalls(memo(n_ary(bar))) with fresh state, *)
(* the calls bar(4,3), bar(4,3,2), bar(4,3,2,1) return 12, 24, 24 and leave *)
(* bar.calls at 3: one per client call, none from the fold's recursion.     *)
ScenarioB ==
    (Done /\ Called("bar", <<<<4, 3>>, <<4, 3, 2>>, <<4, 3, 2, 1>>>>))
        => /\ Returned(<<12, 24, 24>>)
           /\ Counter("bar", 1) = 3

ScenarioB_reached ==
    /\ Done
    /\ Called("bar", <<<<4, 3>>, <<4, 3, 2>>, <<4, 3, 2, 1>>>>)
    /\ Counter("bar", 1) = 3
    /\ Len(log) > 3

(* C3: scenario C.  On fib = countcalls(trace(memo(fib))), whose body calls *)
(* the decorated fib, one client call fib(3) on fresh state comes back with *)
(* 3 and leaves the outer counter at 5.                                     *)
ScenarioC ==
    (Called("fib", <<<<3>>>>) /\ stack = <<>>)
        => /\ ret.kind # "raise"
           /\ Done => (Returned(<<3>>) /\ Counter("fib", 1) = 5)

ScenarioC_reached ==
    /\ Done
    /\ Called("fib", <<<<3>>>>)
    /\ Returned(<<3>>)
    /\ Counter("fib", 1) = 5


\* the k-th client call found its tuple in the cache of link i; what it
\* added to the counter of link i; the calls made to the outermost wrapper
\* of the site while it ran, its own included
WasHit(k, i) == hist[k].args \in DOMAIN hist[k].cache[i]

\* the k-th client call looked its tuple up in the cache of link i and did
\* not find it (a tuple that cannot be hashed is not looked up at all)
WasMiss(k, i) == hashable(hist[k].args) /\ ~WasHit(k, i)

CounterDelta(k, i) == results[k].obj[i].dict.calls - hist[k].obj[i].dict.calls

WrapperCalls(k) == {j \in (hist[k].log + 1)..results[k].log : log[j].idx = 1}

(* C4 as stated: for any inner invocable, (i) in memo(countcalls(inner)) a  *)
(* call whose tuple is already a cache key leaves the counter unchanged, so *)
(* the counter is the number of cache misses; (ii) in countcalls(memo(inner)) *)
(* every client call adds exactly 1 to the counter, so the counter is the   *)
(* number of client calls.                                                  *)
CounterCountsClientCalls ==
    /\ \A k \in DOMAIN results :
          /\ hist[k].site = "foo" => CounterDelta(k, 2) = (IF WasMiss(k, 1) THEN 1 ELSE 0)
          /\ hist[k].site \in {"bar", "fib_d"} => CounterDelta(k, 1) = 1
    /\ (Done /\ OnlySite("foo")) =>
          Counter("foo", 2) = Cardinality({k \in DOMAIN hist : WasMiss(k, 1)})
    /\ (Done /\ hist # <<>> /\ hist[1].site \in {"bar", "fib_d"}) =>
          Counter(hist[1].site, 1) = Len(hist)

(* C4 as it holds: (i) in foo = memo(countcalls(...)) a call whose tuple is *)
(* already a cache key leaves the counter unchanged, as does one whose      *)
(* tuple cannot be hashed, and a call that misses the cache adds 1, so the  *)
(* counter is the number of cache misses; (ii) in                           *)
(* countcalls(memo(...)) every call made to the wrapper adds exactly 1, hit *)
(* or miss: in bar, whose inner never calls bar, the counter is the number  *)
(* of client calls; in countcalls(memo(fib)), whose body calls the wrapper, *)
(* it is the number of calls made to the wrapper by the client and the body. *)
OrderDependentCounting ==
    /\ \A k \in DOMAIN results :
          /\ hist[k].site = "foo" => CounterDelta(k, 2) = (IF WasMiss(k, 1) THEN 1 ELSE 0)
          /\ hist[k].site = "bar" => CounterDelta(k, 1) = 1
          /\ hist[k].site = "fib_d" =>
                CounterDelta(k, 1) = Cardinality(WrapperCalls(k))
    /\ (Done /\ OnlySite("foo")) =>
          Counter("foo", 2) = Cardinality({k \in DOMAIN hist : WasMiss(k, 1)})
    /\ (Done /\ hist # <<>> /\ hist[1].site = "bar") => Counter("bar", 1) = Len(hist)
    /\ (Done /\ hist # <<>> /\ hist[1].site = "fib_d") =>
          Counter("fib_d", 1) = Cardinality({j \in DOMAIN log : log[j].idx = 1})

OrderDependentCounting_reached ==
    /\ Done
    /\ Len(hist) = 3
    /\ OnlySite("foo")
    /\ WasHit(3, 1)
    /\ ~WasHit(2, 1)
    /\ CounterDelta(3, 2) = 0
    /\ Counter("foo", 2) = 2

(* C5: cache correctness.  The links of kind memo, and for one of them the  *)
(* calls it received and the calls it made to the function it wraps.        *)
Links(kind) ==
    UNION {{<<s, i>> : i \in {j \in DOMAIN obj[s] : Home(s, j) = <<s, j>> /\ obj[s][j].kind = kind}}
           : s \in Sites}

MemoLinks == Links("memo")

MemoCalls(s, i) == {k \in DOMAIN log : log[k].site = s /\ log[k].idx = i}

InnerCalls(s, i) ==
    {k \in DOMAIN log : log[k].site = s /\ log[k].idx = i + 1 /\ log[k].from = i}

(* C5 as stated: over any sequence of calls to a memo wrapper, the wrapped  *)
(* function is invoked at most once per distinct argument tuple.            *)
InnerAtMostOncePerTuple ==
    \A l \in MemoLinks : \A j, k \in InnerCalls(l[1], l[2]) :
        log[j].args = log[k].args => j = k

(* C5 as it holds: the wrapped function returns at most once per distinct   *)
(* tuple and is never invoked again for a tuple it has returned for (it is  *)
(* invoked again for a tuple on which it failed); two calls of the wrapper  *)
(* with the same tuple that both return, return the same stored value.      *)
InnerReturnsOncePerTuple ==
    \A l \in MemoLinks :
        /\ \A j, k \in InnerCalls(l[1], l[2]) :
              (log[j].args = log[k].args /\ j < k) => log[j].end = "raise"
        /\ \A j, k \in MemoCalls(l[1], l[2]) :
              (log[j].args = log[k].args /\ log[j].end = "value" /\ log[k].end = "value")
                  => log[j].val = log[k].val

InnerReturnsOncePerTuple_reached ==
    /\ Done
    /\ Len(hist) = 3
    /\ hist[1].site = "fib"
    /\ hist[1].args = <<>> /\ hist[2].args = <<>> /\ hist[3].args = <<3>>
    /\ results[1].kind = "raise" /\ results[2].kind = "raise" /\ results[3].kind = "value"
    /\ Cardinality({k \in InnerCalls("fib", 3) : log[k].args = <<>>}) = 2
    /\ Cardinality({k \in MemoCalls("fib", 3) : log[k].args = <<1>>}) = 2
    /\ Cardinality({k \in InnerCalls("fib", 3) : log[k].args = <<1>>}) = 1

(* C6: arity fold.  The right fold f(x1, f(x2, ... f(x(k-1), xk))) of a     *)
(* function named name over a non-empty argument list.                      *)
F(name, a, b) == IF name = "foo" THEN foo(a, b) ELSE bar(a, b)

RECURSIVE FoldRight(_, _)
FoldRight(name, args) ==
    IF Len(args) = 1 THEN args[1]
    ELSE F(name, args[1], FoldRight(name, Tail(args)))

\* the name of the def at the bottom of a site
DefName(s) == obj[s][Len(obj[s])].name

\* the argument lists the def of a site was called with, in order
DefCalls(s) == SelectSeq(log, LAMBDA e : e.site = s /\ e.idx = Len(obj[s]))

(* C6: for adapted = n_ary(f) and every argument list of length >= 1:       *)
(* adapted(x) = x, adapted(x, y) = f(x, y) and adapted(x1, ..., xk) =        *)
(* f(x1, adapted(x2, ..., xk)), the right fold; f is called k-1 times, with *)
(* (x(k-1), xk) first and (x1, fold of the rest) last.                      *)
ArityFold ==
    /\ \A k \in DOMAIN log :
          LET e == log[k]
              n == Len(e.args)
          IN (e.idx = NaryIdx(e.site) /\ e.end = "value") =>
                /\ n = 1 => e.val = e.args[1]
                /\ n = 2 => e.val = F(DefName(e.site), e.args[1], e.args[2])
                /\ n >= 2 =>
                      \E j \in DOMAIN log :
                          /\ j > k
                          /\ log[j].idx = e.idx /\ log[j].from = e.idx
                          /\ log[j].args = Tail(e.args) /\ log[j].end = "value"
                          /\ e.val = F(DefName(e.site), e.args[1], log[j].val)
                /\ e.val = FoldRight(DefName(e.site), e.args)
    /\ (stack = <<>> /\ log # <<>>) =>
          LET s == log[1].site
              a == log[1].args
              n == Len(a)
          IN /\ ret.kind = "value"
             /\ Len(DefCalls(s)) = n - 1
             /\ \A j \in 1..(n - 1) :
                   DefCalls(s)[j].args = <<a[n - j], FoldRight(DefName(s), SubSeq(a, n - j + 1, n))>>

ArityFold_reached ==
    /\ stack = <<>>
    /\ log # <<>>
    /\ log[1].site = "bar"
    /\ log[1].args = <<2, 1, 2, 2>>
    /\ ret = Value(8)
    /\ Len(DefCalls("bar")) = 3
    /\ DefCalls("bar")[3].args = <<2, 4>>


(* C7: trace cleanup on failure.  When the function a trace wrapper wraps  *)
(* fails, wrapper.level is back, once the failure has reached the client,   *)
(* at the value it had before the call.                                     *)
TraceCleanupOnFailure ==
    \A k \in DOMAIN results :
        (hist[k].site = "fib" /\ results[k].kind = "raise")
            => results[k].obj[2].dict.level = hist[k].obj[2].dict.level

(* C8: trace balance.  The lines a call of a trace wrapper has printed.     *)
TraceCalls == {k \in DOMAIN log : <<log[k].site, log[k].idx>> \in Links("trace")}

EnterLines(k) == {n \in DOMAIN out : out[n].id = k /\ out[n].enter}

ExitLines(k) == {n \in DOMAIN out : out[n].id = k /\ ~out[n].enter}

(* C8 as stated: for any sequence of calls to a trace wrapper, as many exit *)
(* lines as enter lines have been printed once the calls are over.          *)
EnterLinesEqualExitLines ==
    Idle => Cardinality({n \in DOMAIN out : out[n].enter})
                = Cardinality({n \in DOMAIN out : ~out[n].enter})

(* C8 as it holds: a call of a trace wrapper that returns has printed one   *)
(* enter line and, after it, one exit line with the same indentation; a     *)
(* call that fails has printed its enter line only, so once the calls are   *)
(* over the enter lines are the exit lines plus the failed calls; the       *)
(* wrapper's depth is never negative.                                       *)
TraceBalance ==
    /\ \A k \in TraceCalls :
          /\ log[k].end = "value" =>
                /\ Cardinality(EnterLines(k)) = 1
                /\ Cardinality(ExitLines(k)) = 1
                /\ \A n \in EnterLines(k) : \A x \in ExitLines(k) :
                      n < x /\ out[n].prefix = out[x].prefix
          /\ log[k].end = "raise" =>
                Cardinality(EnterLines(k)) = 1 /\ ExitLines(k) = {}
    /\ Idle => Cardinality({n \in DOMAIN out : out[n].enter})
                  = Cardinality({n \in DOMAIN out : ~out[n].enter})
                    + Cardinality({k \in TraceCalls : log[k].end = "raise"})
    /\ \A l \in Links("trace") : obj[l[1]][l[2]].dict.level >= 0

TraceBalance_reached ==
    /\ Done
    /\ Called("fib", <<<<3>>, <<>>, <<2>>>>)
    /\ results[2].kind = "raise"
    /\ Len(out) = 13
    /\ Cardinality({k \in TraceCalls : log[k].end = "value"}) = 6
    /\ obj["fib"][2].dict.level = 1

(* C9: metadata preservation.  Every wrapper made by countcalls, memo,      *)
(* n_ary or trace has the name and the docstring of the function it wraps,  *)
(* so the decorated foo, bar and fib show the name and docstring of their   *)
(* def.                                                                     *)
MetadataPreserved ==
    \A s \in {"foo", "bar", "fib"} :
        /\ \A i \in 1..(Len(obj[s]) - 1) :
              obj[s][i].name = obj[s][i + 1].name /\ obj[s][i].doc = obj[s][i + 1].doc
        /\ obj[s][1].name = DefName(s)
        /\ obj[s][1].doc = obj[s][Len(obj[s])].doc

(* C10: disable.  disable(f) is f itself for every function f, so a stack   *)
(* built with a decorator's name rebound to disable is the stack without    *)
(* that decorator and has neither its counter, its cache nor its depth;     *)
(* disable(marker) for a non-callable marker is a passthrough: called with  *)
(* any function g it gives g.                                               *)
Kinds(chain) == [i \in DOMAIN chain |-> chain[i].kind]

DisableIsIdentity ==
    /\ \A s \in Sites :
          /\ disable(FunctionObj(obj[s])) = FunctionObj(obj[s])
          /\ Apply(disable(StrObj("____")), FunctionObj(obj[s])) = FunctionObj(obj[s])
    /\ Kinds(obj["foo_d"]) = <<"countcalls", "n_ary", "def">>
    /\ Kinds(obj["fib_d"]) = <<"countcalls", "memo", "def">>
    /\ \A i \in DOMAIN cache["foo_d"] : cache["foo_d"][i] = <<>>
    /\ \A i \in DOMAIN obj["fib_d"] : "level" \notin DOMAIN obj["fib_d"][i].dict
    /\ (hist # <<>> /\ hist[1].site = "fib_d") => out = <<>>
    /\ (Done /\ hist # <<>> /\ hist[1].site = "foo_d") => Counter("foo_d", 1) = Len(hist)

DisableIsIdentity_reached ==
    /\ Done
    /\ Called("foo_d", <<<<4, 3>>, <<4, 3>>>>)
    /\ Returned(<<7, 7>>)
    /\ Counter("foo_d", 1) = 2
    /\ Cardinality({k \in DOMAIN log : log[k].idx = 3}) = 2


(* C11: counter state.  The calls made so far to the function object of a  *)
(* link, whichever wrap site they came through.                             *)
EntriesAt(l) == {k \in DOMAIN log : Home(log[k].site, log[k].idx) = l}

\* the top frame has entered the wrapper of link l and not yet run its body
Entering(l) == stack # <<>> /\ Here = l /\ Top.pc = "start"

(* C11: the counter of a countcalls wrapper is 0 at construction and is     *)
(* always the number of calls that have reached the wrapper (one more once  *)
(* the wrapper's body runs, and already so while the wrapped function runs, *)
(* so a call whose wrapped function fails is counted); it never goes down;  *)
(* the wrapper calls the wrapped function with its own arguments and ends   *)
(* as that call ends, with the same value.                                  *)
CounterState ==
    /\ \A l \in Links("countcalls") :
          Counter(l[1], l[2]) = Cardinality(EntriesAt(l)) - (IF Entering(l) THEN 1 ELSE 0)
    /\ \A l \in Links("countcalls") : \A k \in EntriesAt(l) :
          /\ k < Len(log) =>
                /\ log[k + 1].site = log[k].site
                /\ log[k + 1].idx = log[k].idx + 1
                /\ log[k + 1].from = log[k].idx
                /\ log[k + 1].args = log[k].args
          /\ log[k].end # "running" =>
                log[k + 1].end = log[k].end /\ log[k + 1].val = log[k].val
    /\ \A k \in DOMAIN results : \A i \in DOMAIN results[k].obj :
          results[k].obj[i].kind = "countcalls" =>
              results[k].obj[i].dict.calls >= hist[k].obj[i].dict.calls

CounterState_reached ==
    /\ Done
    /\ Called("fib", <<<<>>, <<1>>>>)
    /\ results[1].kind = "raise"
    /\ results[1].obj[1].dict.calls = 1
    /\ results[2].kind = "value"
    /\ Counter("fib", 1) = 2

(* C12: unhashable key.  The sites with a memo wrapper of their own, and   *)
(* where it is.                                                             *)
MemoSites == {l[1] : l \in MemoLinks}

MemoIdx(s) == CHOOSE i \in DOMAIN obj[s] : <<s, i>> \in MemoLinks

\* a tuple with a list among its values
HoldsList(args) == \E i \in DOMAIN args : is_list(args[i])

(* C12: a call of a memo wrapper with a tuple that holds an unhashable      *)
(* value fails without the wrapped function being called; when the client's *)
(* call has failed, every cache of the site and every function object from  *)
(* the memo wrapper down (an inner counter with it) are as the call found   *)
(* them.                                                                    *)
UnhashableKey ==
    /\ \A l \in MemoLinks : \A k \in MemoCalls(l[1], l[2]) :
          HoldsList(log[k].args) =>
              /\ log[k].end \in {"running", "raise"}
              /\ log[k].end = "running" => (k = Len(log) /\ Top.id = k /\ Top.pc = "start")
              /\ {j \in InnerCalls(l[1], l[2]) : log[j].args = log[k].args} = {}
    /\ \A k \in DOMAIN results :
          (hist[k].site \in MemoSites /\ HoldsList(hist[k].args)) =>
              /\ results[k].kind = "raise"
              /\ results[k].cache = hist[k].cache
              /\ \A i \in MemoIdx(hist[k].site)..Len(hist[k].obj) :
                    results[k].obj[i] = hist[k].obj[i]

UnhashableKey_reached ==
    /\ Done
    /\ Called("foo", <<<<4, 3>>, <<ListOf(4), 3>>>>)
    /\ results[2].kind = "raise"
    /\ Counter("foo", 2) = 1
    /\ DOMAIN cache["foo"][1] = {<<4, 3>>}

(* C13: trace nesting and order.  The calls of a trace wrapper still on    *)
(* the stack, the nesting depth of the n-th frame (the calls of the same    *)
(* wrapper it is nested in), and the texts printed so far.                  *)
TraceFrames ==
    {n \in DOMAIN stack : Self(stack[n]).kind = "trace" /\ stack[n].pc # "start"}

Depth(n) ==
    Cardinality({m \in TraceFrames :
                    m < n /\ Home(stack[m].site, stack[m].idx) = Home(stack[n].site, stack[n].idx)})

Texts == [n \in DOMAIN out |-> out[n].text]

(* C13: a call of the trace("____") wrapper nested at depth d prints its    *)
(* enter line with the prefix repeated d times, then the lines of the calls *)
(* nested in it, then its exit line with the same prefix and its result;    *)
(* one call fib(3) on fresh state prints the ten lines of the docstring.    *)
TraceNesting ==
    /\ \A n \in TraceFrames :
          /\ stack[n].prefix = Repeat(Self(stack[n]).arg, Depth(n))
          /\ \E e \in EnterLines(stack[n].id) :
                out[e].text = EnterLine(stack[n].prefix, Self(stack[n]).name, stack[n].arg)
    /\ \A j, k \in TraceCalls : \A ej \in EnterLines(j) : \A ek \in EnterLines(k) :
          \A xj \in ExitLines(j) :
              (ej < ek /\ ek < xj) => \A xk \in ExitLines(k) : xk < xj
    /\ \A k \in TraceCalls : \A x \in ExitLines(k) : \E e \in EnterLines(k) :
          out[x].text = ExitLine(out[e].prefix, Self(log[k]).name, Join(log[k].args), log[k].val)
    /\ (Done /\ Called("fib", <<<<3>>>>)) =>
          Texts = << " --> fib(3)",
                     "____ --> fib(2)",
                     "________ --> fib(1)",
                     "________ <-- fib(1) == 1",
                     "________ --> fib(0)",
                     "________ <-- fib(0) == 1",
                     "____ <-- fib(2) == 2",
                     "____ --> fib(1)",
                     "____ <-- fib(1) == 1",
                     " <-- fib(3) == 3" >>

(* C14: state isolation.  The function objects of the module, each named  *)
(* by the link where it was created, and those a call on a site can reach.  *)
OwnLinks ==
    UNION {{<<s, i>> : i \in {j \in DOMAIN obj[s] : Home(s, j) = <<s, j>>}} : s \in Sites}

ChainHomes(s) == {Home(s, i) : i \in DOMAIN obj[s]}

(* C14: while a call made by the client on one wrap site runs, the counter, *)
(* cache and depth (the whole function object) of every wrapper that is not *)
(* in that site's chain stay as they are, also when the other wrapper wraps *)
(* the same inner function (foo's memo and foo_t's memo and trace).         *)
StateIsolation ==
    [][stack # <<>> =>
          \A l \in OwnLinks :
              l \notin ChainHomes(stack[1].site) =>
                  /\ obj'[l[1]][l[2]] = obj[l[1]][l[2]]
                  /\ cache'[l[1]][l[2]] = cache[l[1]][l[2]]]_vars

StateIsolation_reached ==
    /\ Done
    /\ Len(hist) = 3
    /\ hist[1].site = "foo_t" /\ hist[2].site = "foo" /\ hist[3].site = "foo_t"
    /\ \A k \in DOMAIN hist : hist[k].args = <<4, 3>>
    /\ DOMAIN hist[2].cache[1] = {}
    /\ DOMAIN hist[2].cache[2] = {}
    /\ DOMAIN cache["foo_t"][2] = {<<4, 3>>}
    /\ DOMAIN cache["foo"][1] = {<<4, 3>>}
    /\ Counter("foo", 2) = 2
    /\ obj["foo_t"][1].dict.level = 0

(* C15: zero-argument call.  The calls made to an n_ary wrapper.           *)
NaryEntries == {k \in DOMAIN log : Self(log[k]).kind = "n_ary"}

(* C15: a call of an n_ary wrapper with no argument fails without a call of *)
(* the function it wraps, and leaves the function objects and caches from   *)
(* the n_ary wrapper down as they were.                                     *)
ZeroArgumentCall ==
    /\ \A k \in NaryEntries :
          log[k].args = <<>> =>
              /\ log[k].end \in {"running", "raise"}
              /\ log[k].end = "running" => (k = Len(log) /\ Top.id = k /\ Top.pc = "start")
              /\ k < Len(log) => log[k + 1].from = 0
    /\ \A k \in DOMAIN results :
          (hist[k].site \in NarySites /\ hist[k].args = <<>>) =>
              /\ results[k].kind = "raise"
              /\ \A i \in NaryIdx(hist[k].site)..Len(hist[k].obj) :
                    results[k].obj[i] = hist[k].obj[i] /\ results[k].cache[i] = hist[k].cache[i]
              /\ {j \in (hist[k].log + 1)..results[k].log : log[j].idx > NaryIdx(hist[k].site)} = {}

ZeroArgumentCall_reached ==
    /\ Done
    /\ Called("bar", <<<<4, 3>>, <<>>>>)
    /\ results[2].kind = "raise"
    /\ Counter("bar", 1) = 2
    /\ DOMAIN cache["bar"][2] = {<<4, 3>>}
    /\ Len(DefCalls("bar")) = 1

(* C16: n_ary recurses through itself.  The calls made while the k-th      *)
(* client call ran, those among them made to link i, the lines it printed,  *)
(* and whether the call got as far as link i: every memo wrapper above i    *)
(* missed its cache.                                                        *)
Range(k) == (hist[k].log + 1)..results[k].log

EntriesIn(k, i) == {j \in Range(k) : log[j].idx = i}

LinesIn(k, enter) ==
    {n \in (hist[k].out + 1)..results[k].out : out[n].enter = enter}

Reached(k, i) ==
    \A m \in 1..(i - 1) : hist[k].obj[m].kind = "memo" => WasMiss(k, m)

\* the client calls on a stack T(n_ary(f)) with at least one argument that
\* came back with a value
NaryCalls ==
    {k \in DOMAIN results :
        hist[k].site \in NarySites /\ Len(hist[k].args) >= 1 /\ results[k].kind = "value"}

(* C16 as stated: one client call of T(n_ary(f)) with k >= 1 arguments      *)
(* passes through T exactly once (each counter +1, at most one entry added  *)
(* to each cache, one enter and one exit line per trace wrapper) while f is *)
(* invoked exactly k-1 times.                                               *)
NaryPassesThroughOnce ==
    \A k \in NaryCalls :
        LET s == hist[k].site
        IN /\ \A i \in 1..(NaryIdx(s) - 1) :
                 /\ Cardinality(EntriesIn(k, i)) = 1
                 /\ hist[k].obj[i].kind = "countcalls" => CounterDelta(k, i) = 1
                 /\ hist[k].obj[i].kind = "memo" =>
                       DOMAIN results[k].cache[i] \ DOMAIN hist[k].cache[i] \subseteq {hist[k].args}
                 /\ hist[k].obj[i].kind = "trace" =>
                       Cardinality(LinesIn(k, TRUE)) = 1 /\ Cardinality(LinesIn(k, FALSE)) = 1
           /\ Cardinality(EntriesIn(k, Len(hist[k].obj))) = Len(hist[k].args) - 1

(* C16 as it holds: the recursion of n_ary never re-enters T.  One client   *)
(* call of T(n_ary(f)) with k >= 1 arguments that returns enters each       *)
(* wrapper of T once when every memo above it missed its cache and not at   *)
(* all otherwise, so each counter goes up by 1 or by 0, each cache gains at *)
(* most the call's tuple, and a trace wrapper prints one enter and one exit *)
(* line; f is invoked exactly k-1 times when the call reaches n_ary (none   *)
(* for one argument) and not at all when a memo of T answers from its cache. *)
NaryRecursesThroughItself ==
    \A k \in NaryCalls :
        LET s == hist[k].site
        IN /\ \A i \in 1..(NaryIdx(s) - 1) :
                 /\ Cardinality(EntriesIn(k, i)) = (IF Reached(k, i) THEN 1 ELSE 0)
                 /\ hist[k].obj[i].kind = "countcalls" =>
                       CounterDelta(k, i) = (IF Reached(k, i) THEN 1 ELSE 0)
                 /\ hist[k].obj[i].kind = "memo" =>
                       DOMAIN results[k].cache[i] \ DOMAIN hist[k].cache[i] \subseteq {hist[k].args}
                 /\ hist[k].obj[i].kind = "trace" =>
                       /\ Cardinality(LinesIn(k, TRUE)) = (IF Reached(k, i) THEN 1 ELSE 0)
                       /\ Cardinality(LinesIn(k, FALSE)) = (IF Reached(k, i) THEN 1 ELSE 0)
           /\ Cardinality({j \in EntriesIn(k, NaryIdx(s)) : log[j].from # NaryIdx(s)})
                 = (IF Reached(k, NaryIdx(s)) THEN 1 ELSE 0)
           /\ Cardinality(EntriesIn(k, Len(hist[k].obj)))
                 = (IF Reached(k, NaryIdx(s)) THEN Len(hist[k].args) - 1 ELSE 0)

NaryRecursesThroughItself_reached ==
    /\ Done
    /\ Called("foo_t", <<<<4, 3, 2>>, <<4>>, <<4, 3, 2>>>>)
    /\ Returned(<<9, 4, 9>>)
    /\ Cardinality(EntriesIn(1, 5)) = 2
    /\ Cardinality(EntriesIn(2, 5)) = 0
    /\ Cardinality(EntriesIn(2, 4)) = 1
    /\ Cardinality(EntriesIn(3, 3)) = 0
    /\ Counter("foo", 2) = 2
    /\ Len(out) = 6

(* C17: the cache of a memo wrapper.  Its keys are the tuples of the calls *)
(* of the wrapper that returned, each mapped to the value the wrapped       *)
(* function returned for it; under n_ary they are tuples the client passed. *)
CacheKeys ==
    \A l \in MemoLinks :
        /\ DOMAIN cache[l[1]][l[2]]
              = {log[k].args : k \in {j \in MemoCalls(l[1], l[2]) : log[j].end = "value"}}
        /\ \A k \in InnerCalls(l[1], l[2]) :
              (log[k].end = "value" /\ log[k].args \in DOMAIN cache[l[1]][l[2]])
                  => cache[l[1]][l[2]][log[k].args] = log[k].val
        /\ l[1] \in NarySites =>
              DOMAIN cache[l[1]][l[2]] \subseteq {hist[k].args : k \in DOMAIN hist}

\* a step keeps every key of every cache, with its value
CacheGrows ==
    \A l \in MemoLinks : \A t \in DOMAIN cache[l[1]][l[2]] :
        t \in DOMAIN cache'[l[1]][l[2]] /\ cache'[l[1]][l[2]][t] = cache[l[1]][l[2]][t]

(* C17: the cache of a memo wrapper is empty at construction and            *)
(* append-only: a key stays a key with the same value in every later state; *)
(* the keys are exactly the full argument tuples of the calls of the        *)
(* wrapper whose inner call returned (tuples that fold to the same result   *)
(* are distinct keys, the sub-folds of n_ary are never keys).               *)
CacheAppendOnly == []CacheKeys /\ [][CacheGrows]_vars

CacheAppendOnly_reached ==
    /\ Done
    /\ Called("bar", <<<<4, 3, 2>>, <<4, 3, 2, 1>>, <<4, 3, 2>>>>)
    /\ DOMAIN cache["bar"][2] = {<<4, 3, 2>>, <<4, 3, 2, 1>>}
    /\ cache["bar"][2][<<4, 3, 2>>] = 24
    /\ cache["bar"][2][<<4, 3, 2, 1>>] = 24
    /\ Len(DefCalls("bar")) = 5

(* C18: memo does not cache failures.  The calls of a memo wrapper whose   *)
(* call of the wrapped function failed.                                     *)
FailedInner(s, i) ==
    {k \in MemoCalls(s, i) : (k + 1) \in InnerCalls(s, i) /\ log[k + 1].end = "raise"}

\* a failure leaves the tuple out of the cache, reaches the caller, and a
\* later call with the tuple calls the wrapped function again
FailureNotKey ==
    \A l \in MemoLinks : \A j \in FailedInner(l[1], l[2]) :
        /\ log[j].args \notin DOMAIN cache[l[1]][l[2]]
        /\ log[j].end \in {"running", "raise"}
        /\ log[j].end = "running" => (Top.id = j /\ ret.kind = "raise")
        /\ \A k \in MemoCalls(l[1], l[2]) :
              (j < k /\ log[k].args = log[j].args) =>
                  \/ (stack # <<>> /\ Top.id = k /\ Top.pc = "start")
                  \/ (k + 1) \in InnerCalls(l[1], l[2]) /\ log[k + 1].args = log[k].args

\* no step taken while a failure travels up the stack changes a cache
FailureKeepsCache == (stack # <<>> /\ ret.kind = "raise") => cache' = cache

(* C18: if the function a memo wrapper wraps fails on a tuple t that is not *)
(* a key, the failure reaches the wrapper's caller, the cache is unchanged  *)
(* (t is still not a key), and the next call with t calls the wrapped       *)
(* function again.                                                          *)
NoFailureCached == []FailureNotKey /\ [][FailureKeepsCache]_vars

NoFailureCached_reached ==
    /\ Done
    /\ Called("foo", <<<<4, 3>>, <<>>, <<>>>>)
    /\ results[2].kind = "raise" /\ results[3].kind = "raise"
    /\ Counter("foo", 2) = 3
    /\ DOMAIN cache["foo"][1] = {<<4, 3>>}
    /\ Cardinality(FailedInner("foo", 1)) = 2

(* C19: fib under countcalls(trace(memo)).  The value of fib(n) as the def *)
(* computes it, and the executions of the def's body for the value v.       *)
RECURSIVE FibValue(_)
FibValue(n) == IF n <= 1 THEN 1 ELSE FibValue(n - 1) + FibValue(n - 2)

BodyRuns(v) == {k \in DOMAIN log : log[k].site = "fib" /\ log[k].idx = Len(obj["fib"])
                                      /\ log[k].args = <<v>>}

(* C19: on fresh state, for every n in 2..MaxN one client call fib(n) runs  *)
(* to its end (a step is possible until it has returned), returns fib(n),   *)
(* has run the def's body exactly once for each value 0..n and for nothing  *)
(* else, and leaves the outer counter at 2n-1.                              *)
FibLinearCalls ==
    \A n \in 2..MaxN :
        Called("fib", <<<<n>>>>) =>
            /\ ~Done => ENABLED Next
            /\ \A v \in 0..n : Cardinality(BodyRuns(v)) <= 1
            /\ Done =>
                  /\ Returned(<<FibValue(n)>>)
                  /\ \A v \in 0..n : Cardinality(BodyRuns(v)) = 1
                  /\ Cardinality({k \in DOMAIN log : log[k].idx = Len(obj["fib"])}) = n + 1
                  /\ Counter("fib", 1) = 2 * n - 1

FibLinearCalls_reached ==
    /\ Done
    /\ Called("fib", <<<<MaxN>>>>)
    /\ Returned(<<FibValue(MaxN)>>)
    /\ Counter("fib", 1) = 2 * MaxN - 1
    /\ \A v \in 0..MaxN : Cardinality(BodyRuns(v)) = 1

=======================================================================
